---- MODULE Spec2Model ----
(***************************************************************************)
(* Entity / spatial-reasoning layer of possession_index:                   *)
(*   src/game/player.py    Player (current package)                        *)
(*   src/soccer/player.py  Player (legacy package)                         *)
(*   src/run_utils.py      create_mask, get_main_ref, get_main_ball ...    *)
(*                                                                         *)
(* Python values are records tagged by a kind field: None, a raised        *)
(* exception, a point, a float, a bool, a Detection, a Player, a Ball.     *)
(* Coordinates are held in half-pixel units (pixel 3 is 6), so that the    *)
(* code's (x1 + x2) / 2 is exact. A float produced by np.linalg.norm is    *)
(* held by its square (in half-pixel^2); norm is monotone, so < and <= on  *)
(* norms are < and <= on the squares.                                      *)
(***************************************************************************)
EXTENDS Integers, Sequences, FiniteSets, TLC

VARIABLES
    player,      \* the Player a query is made on (self)
    other,       \* the second operand of an equality query
    ball,        \* the frame's Ball
    result,      \* what the last operation returned or raised
    detections,  \* a frame's detection batch (data maps are mutable)
    teams,       \* the roster handed to from_detections
    players,     \* the list from_detections returned
    frame,       \* the video frame handed to create_mask
    match,       \* the match handed to get_main_ball
    calls        \* the motion estimator's log of update(frame, mask) calls

vars ==
    <<player, other, ball, result, detections, teams, players, frame, match,
      calls>>

(* ---------------------------- bounds ---------------------------------- *)
MaxCoord == 2    \* pixel coordinates of box corners range over 0..MaxCoord
MaxDets == 3     \* longest detection batch
MaxFrames == 3   \* frames fed to the motion estimator

(* ---------------------------- values ---------------------------------- *)
None == [kind |-> "None"]
Raise(exc) == [kind |-> "raise", exc |-> exc]
Point(x, y) == [kind |-> "point", x |-> x, y |-> y]
Float(sq) == [kind |-> "float", sq |-> sq]
Bool(b) == [kind |-> "bool", b |-> b]
PyInt(n) == [kind |-> "int", n |-> n]
Pair(a, b) == [kind |-> "array", a |-> a, b |-> b]

\* a list argument that may also be None
List(items) == [kind |-> "list", items |-> items]

IsNone(v) == v.kind = "None"
\* (a data map is the one value without a kind)
IsRaise(v) == "kind" \in DOMAIN v /\ v.kind = "raise"

\* norfair.Detection(points, data): absolute_points is filled by the tracker
Detection(points, absolute_points, data) ==
    [kind |-> "Detection", points |-> points,
     absolute_points |-> absolute_points, data |-> data]

\* pixel corner (x, y) in half-pixel units
Px(x, y) == <<2 * x, 2 * y>>
Grid == {Px(x, y) : x \in 0..MaxCoord, y \in 0..MaxCoord}
Shift(points, off) ==
    <<<<points[1][1] + off[1], points[1][2] + off[2]>>,
      <<points[2][1] + off[1], points[2][2] + off[2]>>>>
\* camera motion between the frame and the absolute space: none, or a pan
AbsShifts == {<<0, 0>>, <<4, 0>>}

Min(a, b) == IF a < b THEN a ELSE b
Max(a, b) == IF a < b THEN b ELSE a

\* np.linalg.norm(p - q), held by its square
Norm(p, q) == Float((p.x - q.x) * (p.x - q.x) + (p.y - q.y) * (p.y - q.y))

(* ------------------------- game.Player -------------------------------- *)
\* truthiness of a Detection / Player / Team: objects without __bool__ are
\* truthy, None is falsy, an int is truthy unless it is 0
Truthy(v) ==
    CASE v.kind = "None" -> FALSE
      [] v.kind = "int" -> v.n # 0
      [] v.kind = "bool" -> v.b
      [] v.kind = "list" -> v.items # <<>>
      [] OTHER -> TRUE

PlayerInit(detection) ==
    [kind |-> "Player",
     txy |-> None,
     be_xy |-> None,
     detection |-> detection,
     in_possession |-> FALSE,
     team |-> IF Truthy(detection) /\ "team" \in DOMAIN detection.data
              THEN detection.data.team
              ELSE None]

\* self.detection.points / .absolute_points: AttributeError on None
DetPoints(detection) ==
    IF IsNone(detection) THEN Raise("AttributeError") ELSE detection.points
DetAbsPoints(detection) ==
    IF IsNone(detection) THEN Raise("AttributeError")
    ELSE detection.absolute_points

\* variant: the lower of the two y, whichever corner holds it
get_left_foot_max(points) ==
    Point(points[1][1], Max(points[1][2], points[2][2]))
get_left_foot(points) == Point(points[1][1], points[2][2])

get_right_foot(points) == Point(points[2][1], points[2][2])

\* get_center(self, points) overwrites its argument with self.detection.points
get_center(self, points) ==
    IF IsNone(self.detection) THEN Raise("AttributeError")
    ELSE LET pts == self.detection.points
         IN Point((pts[1][1] + pts[2][1]) \div 2, (pts[1][2] + pts[2][2]) \div 2)

get_xy(self) ==
    IF IsNone(self.detection) THEN Raise("AttributeError")
    ELSE LET pts == self.detection.points
         IN Point((pts[1][1] + pts[2][1]) \div 2, Min(pts[1][2], pts[2][2]))

xy(self) == get_xy(self)

left_foot(self) ==
    IF IsNone(self.detection) THEN Raise("AttributeError")
    ELSE get_left_foot(DetPoints(self.detection))

right_foot(self) ==
    IF IsNone(self.detection) THEN Raise("AttributeError")
    ELSE get_right_foot(DetPoints(self.detection))

center(self) ==
    IF IsNone(self.detection) THEN Raise("AttributeError")
    ELSE get_center(self, DetPoints(self.detection))

left_foot_abs(self) ==
    IF IsNone(self.detection) THEN Raise("AttributeError")
    ELSE get_left_foot(DetAbsPoints(self.detection))

right_foot_abs(self) ==
    IF IsNone(self.detection) THEN Raise("AttributeError")
    ELSE get_right_foot(DetAbsPoints(self.detection))

center_abs(self) ==
    IF IsNone(self.detection) THEN Raise("AttributeError")
    ELSE get_center(self, DetAbsPoints(self.detection))

feet(self) ==
    LET l == left_foot(self)
    IN IF IsRaise(l) THEN l
       ELSE LET r == right_foot(self)
            IN IF IsRaise(r) THEN r ELSE Pair(l, r)

(* --------------------------- game.Ball -------------------------------- *)
\* Ball keeps this frame's detection and the last non-null one
BallInit(detection, last_detection) ==
    [kind |-> "Ball", detection |-> detection,
     last_detection |-> last_detection, color |-> None]

\* the centre of a detection's box, read as detection.center
DetectionCenter(detection) ==
    LET pts == detection.points
    IN Point((pts[1][1] + pts[2][1]) \div 2, (pts[1][2] + pts[2][2]) \div 2)

ball_center(b) ==
    IF IsNone(b.detection) THEN None ELSE DetectionCenter(b.detection)

ball_center_abs(b) ==
    IF IsNone(b.detection) THEN None
    ELSE LET pts == b.detection.absolute_points
         IN Point((pts[1][1] + pts[2][1]) \div 2, (pts[1][2] + pts[2][2]) \div 2)

(* -------------------- game.Player: relations to the ball -------------- *)
distance_to_ball(self, b) ==
    IF IsNone(self.detection) \/ IsNone(ball_center(b)) THEN None
    ELSE Norm(ball_center(b), center(self))

\* variant: no fallback to the last detection
distance_to_last_ball_current_only(self, b) ==
    IF IsNone(self.detection) THEN None
    ELSE IF IsNone(ball_center(b)) THEN None
    ELSE Norm(DetectionCenter(b.detection), center(self))
distance_to_last_ball(self, b) ==
    IF IsNone(self.detection) THEN None
    ELSE IF IsNone(ball_center(b))
         THEN IF ~IsNone(b.last_detection)
                 /\ ~IsNone(DetectionCenter(b.last_detection))
              THEN Norm(DetectionCenter(b.last_detection), center(self))
              ELSE None
         ELSE Norm(DetectionCenter(b.detection), center(self))

\* variant: a tie goes to the left foot
closest_foot_to_ball_nonstrict(self, b) ==
    IF IsNone(self.detection) \/ IsNone(ball_center(b)) THEN None
    ELSE IF Norm(ball_center(b), left_foot(self)).sq
            <= Norm(ball_center(b), right_foot(self)).sq
         THEN left_foot(self)
         ELSE right_foot(self)
closest_foot_to_ball(self, b) ==
    IF IsNone(self.detection) \/ IsNone(ball_center(b)) THEN None
    ELSE LET left_foot_distance == Norm(ball_center(b), left_foot(self))
             right_foot_distance == Norm(ball_center(b), right_foot(self))
         IN IF left_foot_distance.sq < right_foot_distance.sq
            THEN left_foot(self)
            ELSE right_foot(self)

\* float <= None is a TypeError
closest_center_to_ball_abs(self, b) ==
    IF IsNone(self.detection) \/ IsNone(ball_center_abs(b)) THEN None
    ELSE LET center_distance == Norm(ball_center_abs(b), center_abs(self))
             pixel_distance == distance_to_ball(self, b)
         IN IF IsNone(pixel_distance) THEN Raise("TypeError")
            ELSE IF center_distance.sq <= pixel_distance.sq
                 THEN center(self)
                 ELSE None

closest_foot_to_ball_abs(self, b) ==
    IF IsNone(self.detection) \/ IsNone(ball_center_abs(b)) THEN None
    ELSE LET left_foot_distance == Norm(ball_center_abs(b), left_foot_abs(self))
             right_foot_distance == Norm(ball_center_abs(b), right_foot_abs(self))
         IN IF left_foot_distance.sq < right_foot_distance.sq
            THEN left_foot_abs(self)
            ELSE right_foot_abs(self)

(* ------------------------- soccer.Player ------------------------------ *)
soccer_PlayerInit(detection) ==
    [kind |-> "Player",
     detection |-> detection,
     team |-> IF Truthy(detection) /\ "team" \in DOMAIN detection.data
              THEN detection.data.team
              ELSE None]

soccer_left_foot(self) ==
    IF IsNone(self.detection) THEN Raise("AttributeError")
    ELSE LET pts == self.detection.points
         IN Point(pts[1][1], pts[2][2])

soccer_right_foot(self) ==
    IF IsNone(self.detection) THEN Raise("AttributeError")
    ELSE LET pts == self.detection.points
         IN Point(pts[2][1], pts[2][2])

soccer_feet(self) ==
    LET l == soccer_left_foot(self)
    IN IF IsRaise(l) THEN l
       ELSE LET r == soccer_right_foot(self)
            IN IF IsRaise(r) THEN r ELSE Pair(l, r)

\* variant: the left foot alone
soccer_distance_to_ball_left(self, b) ==
    IF IsNone(self.detection) \/ IsNone(ball_center(b)) THEN None
    ELSE Norm(ball_center(b), soccer_left_foot(self))
soccer_distance_to_ball(self, b) ==
    IF IsNone(self.detection) \/ IsNone(ball_center(b)) THEN None
    ELSE LET left_foot_distance == Norm(ball_center(b), soccer_left_foot(self))
             right_foot_distance == Norm(ball_center(b), soccer_right_foot(self))
         IN Float(Min(left_foot_distance.sq, right_foot_distance.sq))

soccer_closest_foot_to_ball(self, b) ==
    IF IsNone(self.detection) \/ IsNone(ball_center(b)) THEN None
    ELSE LET left_foot_distance == Norm(ball_center(b), soccer_left_foot(self))
             right_foot_distance == Norm(ball_center(b), soccer_right_foot(self))
         IN IF left_foot_distance.sq < right_foot_distance.sq
            THEN soccer_left_foot(self)
            ELSE soccer_right_foot(self)

(* ---------------------- game.Player: equality ------------------------- *)
\* obj.detection.data: AttributeError when obj has no detection attribute
\* or the detection is None
DetectionData(obj) ==
    IF obj.kind # "Player" THEN Raise("AttributeError")
    ELSE IF IsNone(obj.detection) THEN Raise("AttributeError")
    ELSE obj.detection.data

\* data["id"]: KeyError when the key is missing
DataId(data) ==
    IF IsRaise(data) THEN data
    ELSE IF "id" \notin DOMAIN data THEN Raise("KeyError")
    ELSE PyInt(data.id)

Player_eq(self, oth) ==
    IF self.kind # "Player" \/ oth.kind # "Player" THEN Bool(FALSE)
    ELSE LET self_id == DataId(DetectionData(self))
         IN IF IsRaise(self_id) THEN self_id
            ELSE LET other_id == DataId(DetectionData(oth))
                 IN IF IsRaise(other_id) THEN other_id
                    ELSE Bool(self_id = other_id)

have_same_id(player1, player2) ==
    IF ~Truthy(player1) \/ ~Truthy(player2) THEN Bool(FALSE)
    ELSE LET data1 == DetectionData(player1)
         IN IF IsRaise(data1) THEN data1
            ELSE IF "id" \notin DOMAIN data1 THEN Bool(FALSE)
            ELSE LET data2 == DetectionData(player2)
                 IN IF IsRaise(data2) THEN data2
                    ELSE IF "id" \notin DOMAIN data2 THEN Bool(FALSE)
                    ELSE Player_eq(player1, player2)

(* ------------------------------ Team ---------------------------------- *)
Team(name, color) == [kind |-> "Team", name |-> name, color |-> color]

\* Team.from_name: the roster's team of that exact name, or None
RECURSIVE Team_from_name(_, _)
Team_from_name(roster, name) ==
    IF roster = <<>> THEN None
    ELSE IF Head(roster).name = name THEN Head(roster)
    ELSE Team_from_name(Tail(roster), name)

(* ------------------ Player.from_detections (both packages) ------------ *)
\* detection.data["team"] = team
SetTeam(detection, team) ==
    [detection EXCEPT !.data =
        [k \in DOMAIN detection.data \cup {"team"} |->
            IF k = "team" THEN team ELSE detection.data[k]]]

\* one pass of the loop body on a non-None detection: the detection as the
\* loop leaves it
\* variant: a lookup miss leaves the data map untouched
Classified_found_only(detection, roster) ==
    IF "classification" \in DOMAIN detection.data
       /\ ~IsNone(Team_from_name(roster, detection.data.classification))
    THEN SetTeam(detection, Team_from_name(roster, detection.data.classification))
    ELSE detection
Classified(detection, roster) ==
    IF "classification" \in DOMAIN detection.data
    THEN SetTeam(detection, Team_from_name(roster, detection.data.classification))
    ELSE detection

\* the loop from position i on; acc.players is the list built so far and
\* acc.detections the batch with the data maps as written so far
RECURSIVE from_detections_loop(_, _, _)
from_detections_loop(acc, roster, i) ==
    IF i > Len(acc.detections) THEN acc
    ELSE LET detection == acc.detections[i]
         IN IF IsNone(detection)
            THEN from_detections_loop(acc, roster, i + 1)
            ELSE LET written == Classified(detection, roster)
                 IN from_detections_loop(
                        [players |-> Append(acc.players, PlayerInit(written)),
                         detections |-> [acc.detections EXCEPT ![i] = written]],
                        roster, i + 1)

\* variant: the loop ends at the first None (break for continue)
RECURSIVE from_detections_stop_at_none(_, _, _)
from_detections_stop_at_none(acc, roster, i) ==
    IF i > Len(acc.detections) THEN acc
    ELSE LET detection == acc.detections[i]
         IN IF IsNone(detection)
            THEN acc
            ELSE LET written == Classified(detection, roster)
                 IN from_detections_stop_at_none(
                        [players |-> Append(acc.players, PlayerInit(written)),
                         detections |-> [acc.detections EXCEPT ![i] = written]],
                        roster, i + 1)

from_detections_break(dets, roster) ==
    from_detections_stop_at_none([players |-> <<>>, detections |-> dets], roster, 1)
from_detections(dets, roster) ==
    from_detections_loop([players |-> <<>>, detections |-> dets], roster, 1)

RECURSIVE soccer_from_detections_loop(_, _, _)
soccer_from_detections_loop(acc, roster, i) ==
    IF i > Len(acc.detections) THEN acc
    ELSE LET detection == acc.detections[i]
         IN IF IsNone(detection)
            THEN soccer_from_detections_loop(acc, roster, i + 1)
            ELSE LET written == Classified(detection, roster)
                 IN soccer_from_detections_loop(
                        [players |-> Append(acc.players, soccer_PlayerInit(written)),
                         detections |-> [acc.detections EXCEPT ![i] = written]],
                        roster, i + 1)

soccer_from_detections(dets, roster) ==
    soccer_from_detections_loop([players |-> <<>>, detections |-> dets], roster, 1)

(* --------------------------- run_utils -------------------------------- *)
margin == 40
GoalCounter == [r0 |-> 363, r1 |-> 118, c0 |-> 856, c1 |-> 64]
BroadcasterLogo == [r0 |-> 1589, r1 |-> 143, c0 |-> 1805, c1 |-> 95]

\* a[lo:hi] on an axis of length n, for lo, hi >= 0: the indices i with
\* Min(lo, n) <= i < Min(hi, n); none when lo >= hi
Slice(lo, hi, n) == [lo |-> Min(lo, n), hi |-> Min(hi, n)]
InSlice(i, sl) == sl.lo <= i /\ i < sl.hi
SliceEmpty(sl) == sl.lo >= sl.hi

\* mask[r0:r1, c0:c1] = 0 on a mask held as its shape and the index ranges
\* that were zeroed
ZeroRegion(mask, r0, r1, c0, c1) ==
    LET rows == Slice(r0, r1, mask.shape[1])
        cols == Slice(c0, c1, mask.shape[2])
    IN IF SliceEmpty(rows) \/ SliceEmpty(cols) THEN mask
       ELSE [mask EXCEPT !.zero = @ \cup {[rows |-> rows, cols |-> cols]}]

MaskAt(mask, r, c) ==
    IF \E z \in mask.zero : InSlice(r, z.rows) /\ InSlice(c, z.cols) THEN 0 ELSE 1

\* np.ones(frame.shape[:2])
Ones(shape) == [kind |-> "mask", shape |-> shape, zero |-> {}]

\* BaseDetection.generate_predictions_mask: every pixel within margin of a
\* detection's box is excluded
RECURSIVE generate_predictions_mask(_, _, _)
generate_predictions_mask(dets, img, mrg) ==
    IF dets = <<>> THEN Ones(img.shape)
    ELSE LET pts == Head(dets).points
             ymin == Min(pts[1][2], pts[2][2]) \div 2
             ymax == Max(pts[1][2], pts[2][2]) \div 2
             xmin == Min(pts[1][1], pts[2][1]) \div 2
             xmax == Max(pts[1][1], pts[2][1]) \div 2
         IN ZeroRegion(generate_predictions_mask(Tail(dets), img, mrg),
                       Max(ymin - mrg, 0), ymax + mrg,
                       Max(xmin - mrg, 0), xmax + mrg)

create_mask(frm, dets) ==
    LET mask == IF dets = <<>> THEN Ones(frm.shape)
                ELSE generate_predictions_mask(dets, frm, margin)
        m1 == ZeroRegion(mask, GoalCounter.r0, GoalCounter.r1,
                         GoalCounter.c0, GoalCounter.c1)
    IN ZeroRegion(m1, BroadcasterLogo.r0, BroadcasterLogo.r1,
                  BroadcasterLogo.c0, BroadcasterLogo.c1)

(* ----------------------- inputs of the queries ------------------------ *)
NoResult == [op |-> "none", val |-> None]

Boxes == {<<p, q>> : p \in Grid, q \in Grid}
PlayerDets ==
    {Detection(bx, Shift(bx, off), [id |-> 1]) : bx \in Boxes, off \in AbsShifts}
\* the ball's box is one pixel wide and high
BallBoxes == {<<p, <<p[1] + 2, p[2] + 2>>>> : p \in Grid}
BallDets ==
    {Detection(bx, Shift(bx, off), [id |-> 9]) : bx \in BallBoxes, off \in AbsShifts}
\* a ball seen in this frame has that detection as its last one; a ball not
\* seen keeps whatever was last seen, if anything
Balls ==
    {BallInit(d, d) : d \in BallDets}
    \cup {BallInit(None, d) : d \in BallDets \cup {None}}

Init ==
    /\ player \in {PlayerInit(d) : d \in PlayerDets \cup {None}}
    /\ ball \in Balls
    /\ other = None
    /\ result = NoResult
    /\ detections = <<>>
    /\ teams = <<>>
    /\ players = <<>>
    /\ frame = None
    /\ match = None
    /\ calls = <<>>

Returns(op, val) ==
    /\ result' = [op |-> op, val |-> val]
    /\ UNCHANGED <<player, other, ball, detections, teams, players, frame, match, calls>>

(* one action per accessor / method of game.Player *)
Xy == Returns("xy", xy(player))
LeftFoot == Returns("left_foot", left_foot(player))
RightFoot == Returns("right_foot", right_foot(player))
Center == Returns("center", center(player))
LeftFootAbs == Returns("left_foot_abs", left_foot_abs(player))
RightFootAbs == Returns("right_foot_abs", right_foot_abs(player))
CenterAbs == Returns("center_abs", center_abs(player))
Feet == Returns("feet", feet(player))
DistanceToBall == Returns("distance_to_ball", distance_to_ball(player, ball))
DistanceToLastBall ==
    Returns("distance_to_last_ball", distance_to_last_ball(player, ball))
ClosestFootToBall ==
    Returns("closest_foot_to_ball", closest_foot_to_ball(player, ball))
ClosestCenterToBallAbs ==
    Returns("closest_center_to_ball_abs", closest_center_to_ball_abs(player, ball))
ClosestFootToBallAbs ==
    Returns("closest_foot_to_ball_abs", closest_foot_to_ball_abs(player, ball))

(* the same queries on soccer.Player, built from the same detection *)
SoccerSelf == soccer_PlayerInit(player.detection)
SoccerLeftFoot == Returns("soccer.left_foot", soccer_left_foot(SoccerSelf))
SoccerRightFoot == Returns("soccer.right_foot", soccer_right_foot(SoccerSelf))
SoccerFeet == Returns("soccer.feet", soccer_feet(SoccerSelf))
SoccerDistanceToBall ==
    Returns("soccer.distance_to_ball", soccer_distance_to_ball(SoccerSelf, ball))
SoccerClosestFootToBall ==
    Returns("soccer.closest_foot_to_ball",
            soccer_closest_foot_to_ball(SoccerSelf, ball))

Next ==
    \/ Xy
    \/ LeftFoot
    \/ RightFoot
    \/ Center
    \/ LeftFootAbs
    \/ RightFootAbs
    \/ CenterAbs
    \/ Feet
    \/ DistanceToBall
    \/ DistanceToLastBall
    \/ ClosestFootToBall
    \/ ClosestCenterToBallAbs
    \/ ClosestFootToBallAbs
    \/ SoccerLeftFoot
    \/ SoccerRightFoot
    \/ SoccerFeet
    \/ SoccerDistanceToBall
    \/ SoccerClosestFootToBall

Spec == Init /\ [][Next]_vars

(* --------------------- equality: operands and steps ------------------- *)
EqBoxes == {<<Px(0, 0), Px(1, 1)>>, <<Px(1, 0), Px(2, 1)>>}
EqDets ==
    {Detection(bx, bx, [id |-> i]) : bx \in EqBoxes, i \in {1, 2}}
    \cup {Detection(bx, bx, [label |-> "player"]) : bx \in EqBoxes}
EqOperands ==
    {PlayerInit(d) : d \in EqDets \cup {None}} \cup {None, PyInt(5)}

InitEq ==
    /\ player \in EqOperands
    /\ other \in EqOperands
    /\ ball = BallInit(None, None)
    /\ result = NoResult
    /\ detections = <<>>
    /\ teams = <<>>
    /\ players = <<>>
    /\ frame = None
    /\ match = None
    /\ calls = <<>>

\* player == other, with player a Player
Eq ==
    /\ player.kind = "Player"
    /\ Returns("__eq__", Player_eq(player, other))

HaveSameId == Returns("have_same_id", have_same_id(player, other))

NextEq ==
    \/ Eq
    \/ HaveSameId

SpecEq == InitEq /\ [][NextEq]_vars

(* ------------------- from_detections: batches and steps --------------- *)
TeamRed == Team("TeamRed", "red")
TeamBlue == Team("TeamBlue", "blue")
Rosters == {<<>>, <<TeamRed>>, <<TeamBlue, TeamRed>>}
Ids == {1, 2}
Labels == {"TeamRed", "Unknown"}
DataMaps ==
    {[id |-> i] : i \in Ids}
    \cup {[id |-> i, classification |-> c] : i \in Ids, c \in Labels}
    \cup {[id |-> i, team |-> TeamBlue] : i \in Ids}
    \cup {[id |-> i, classification |-> c, team |-> TeamBlue] :
              i \in Ids, c \in Labels}
BatchBox == <<Px(0, 0), Px(1, 1)>>
BatchDets == {Detection(BatchBox, BatchBox, data) : data \in DataMaps}
Batches ==
    UNION {[1..n -> BatchDets \cup {None}] : n \in 0..MaxDets}

InitFactory ==
    /\ detections \in Batches
    /\ teams \in Rosters
    /\ players = <<>>
    /\ result = NoResult
    /\ player = PlayerInit(None)
    /\ other = None
    /\ ball = BallInit(None, None)
    /\ frame = None
    /\ match = None
    /\ calls = <<>>

FromDetections ==
    /\ result = NoResult
    /\ LET out == from_detections(detections, teams)
       IN /\ players' = out.players
          /\ detections' = out.detections
    /\ result' = [op |-> "from_detections", val |-> None]
    /\ UNCHANGED <<player, other, ball, teams, frame, match, calls>>

SoccerFromDetections ==
    /\ result = NoResult
    /\ LET out == soccer_from_detections(detections, teams)
       IN /\ players' = out.players
          /\ detections' = out.detections
    /\ result' = [op |-> "soccer.from_detections", val |-> None]
    /\ UNCHANGED <<player, other, ball, teams, frame, match, calls>>

NextFactory ==
    \/ FromDetections
    \/ SoccerFromDetections

SpecFactory == InitFactory /\ [][NextFactory]_vars

(* ----------------------- create_mask: frames and steps ---------------- *)
Frame(shape, content) == [kind |-> "frame", shape |-> shape, content |-> content]
Shapes == {<<720, 1280>>, <<1080, 1920>>, <<1800, 2000>>, <<2160, 3840>>}
Frames == {Frame(sh, c) : sh \in Shapes, c \in {"a", "b"}}
MaskBoxes ==
    {<<Px(100, 200), Px(160, 330)>>, <<Px(10, 20), Px(50, 120)>>,
     <<Px(900, 400), Px(960, 520)>>}
MaskDets == {Detection(bx, bx, [id |-> 1]) : bx \in MaskBoxes}
MaskBatches == UNION {[1..n -> MaskDets] : n \in 0..MaxDets}

InitMask ==
    /\ frame \in Frames
    /\ match = None
    /\ calls = <<>>
    /\ detections \in MaskBatches
    /\ result = NoResult
    /\ teams = <<>>
    /\ players = <<>>
    /\ player = PlayerInit(None)
    /\ other = None
    /\ ball = BallInit(None, None)

CreateMask ==
    /\ result' = [op |-> "create_mask", val |-> create_mask(frame, detections)]
    /\ UNCHANGED <<player, other, ball, detections, teams, players, frame, match, calls>>

NextMask ==
    \/ CreateMask

SpecMask == InitMask /\ [][NextMask]_vars

(* ------------------ get_main_ref / get_main_ball ---------------------- *)
\* Referee(detection=None)
RefereeInit(detection) == [kind |-> "Referee", detection |-> detection]

\* Match: the team in possession, if any
Match(team_possession) == [kind |-> "Match", team_possession |-> team_possession]

\* Ball.set_color: the ball takes the colour of the team in possession
set_color(b, m) ==
    IF IsNone(m.team_possession) THEN b
    ELSE [b EXCEPT !.color = m.team_possession.color]

\* ball.detection = detection: a non-None detection is also the last one seen
SetBallDetection(b, detection) ==
    [b EXCEPT !.detection = detection,
              !.last_detection = IF IsNone(detection) THEN @ ELSE detection]

\* variant: nothing to wrap, nothing returned
get_main_ref_or_none(dets) ==
    IF Truthy(dets) THEN [RefereeInit(None) EXCEPT !.detection = dets.items[1]]
    ELSE None
get_main_ref(dets) ==
    LET referee == RefereeInit(None)
    IN IF Truthy(dets)
       THEN [referee EXCEPT !.detection = dets.items[1]]
       ELSE referee

get_main_ball(dets, m) ==
    LET b0 == BallInit(None, None)
        b1 == IF Truthy(m) THEN set_color(b0, m) ELSE b0
    IN IF Truthy(dets)
       THEN SetBallDetection(b1, dets.items[1])
       ELSE b1

MainBoxes == {<<Px(0, 0), Px(1, 1)>>, <<Px(1, 0), Px(2, 1)>>}
MainDets == {Detection(bx, bx, [id |-> i]) : bx \in MainBoxes, i \in {1, 2}}
MainLists ==
    {None} \cup {List(l) : l \in UNION {[1..n -> MainDets] : n \in 0..MaxDets}}
Matches == {None, Match(None), Match(TeamRed)}

InitMain ==
    /\ detections \in MainLists
    /\ match \in Matches
    /\ result = NoResult
    /\ player = PlayerInit(None)
    /\ other = None
    /\ ball = BallInit(None, None)
    /\ teams = <<>>
    /\ players = <<>>
    /\ frame = None
    /\ calls = <<>>

GetMainRef == Returns("get_main_ref", get_main_ref(detections))

\* the returned ball becomes the frame's ball
GetMainBall ==
    /\ ball' = get_main_ball(detections, match)
    /\ result' = [op |-> "get_main_ball", val |-> ball']
    /\ UNCHANGED <<player, other, detections, teams, players, frame, match, calls>>

NextMain ==
    \/ GetMainRef
    \/ GetMainBall

SpecMain == InitMain /\ [][NextMain]_vars

(* --------------------- update_motion_estimator ------------------------ *)
\* MotionEstimator.update(frame, mask=mask): the estimator sees the frame and
\* the mask and answers with a transform of its own making, t
MotionEstimator_update(estimator, frm, mask, t) ==
    [estimator |-> Append(estimator, [frame |-> frm, mask |-> mask, returned |-> t]),
     returned |-> t]

\* variant: the estimator is called without the mask
update_motion_estimator_no_mask(estimator, dets, frm, t) ==
    MotionEstimator_update(estimator, frm, None, t)
update_motion_estimator(estimator, dets, frm, t) ==
    LET mask == create_mask(frm, dets)
        coord_transformations == MotionEstimator_update(estimator, frm, mask, t)
    IN coord_transformations

Transforms == {[kind |-> "transform", name |-> n] : n \in {"pan", "zoom"}}
MotionFrames == {Frame(<<720, 1280>>, "a"), Frame(<<1080, 1920>>, "b")}
MotionBatches == {<<>>} \cup {<<d>> : d \in MaskDets}

InitMotion ==
    /\ calls = <<>>
    /\ frame = None
    /\ detections = <<>>
    /\ result = NoResult
    /\ match = None
    /\ player = PlayerInit(None)
    /\ other = None
    /\ ball = BallInit(None, None)
    /\ teams = <<>>
    /\ players = <<>>

\* one frame of the video: the caller hands over that frame and its detections
UpdateMotionEstimator ==
    /\ Len(calls) < MaxFrames
    /\ \E frm \in MotionFrames, dets \in MotionBatches, t \in Transforms :
         LET out == update_motion_estimator(calls, dets, frm, t)
         IN /\ frame' = frm
            /\ detections' = dets
            /\ calls' = out.estimator
            /\ result' = [op |-> "update_motion_estimator", val |-> out.returned]
    /\ UNCHANGED <<player, other, ball, teams, players, match>>

NextMotion ==
    \/ UpdateMotionEstimator

SpecMotion == InitMotion /\ [][NextMotion]_vars

(* ====================================================================== *)
(* Properties                                                             *)
(* ====================================================================== *)
\* geometry read straight off the boxes, for stating the properties
BoxCenter(pts) ==
    Point((pts[1][1] + pts[2][1]) \div 2, (pts[1][2] + pts[2][2]) \div 2)
LowerLeft(pts) == Point(pts[1][1], pts[2][2])
SecondCorner(pts) == Point(pts[2][1], pts[2][2])
SqDist(p, q) == (p.x - q.x) * (p.x - q.x) + (p.y - q.y) * (p.y - q.y)
PlayerSeen == ~IsNone(player.detection)
BallSeen == ~IsNone(ball.detection)

\* C1: closest_foot_to_ball (both packages), for a player and a ball that both
\* have geometry, returns the left foot exactly when the ball's centre is
\* strictly nearer to the left foot than to the right foot, and the right foot
\* otherwise; on a tie the right foot is returned.
C1_ClosestFootStrict ==
    (/\ result.op \in {"closest_foot_to_ball", "soccer.closest_foot_to_ball"}
     /\ PlayerSeen
     /\ BallSeen)
    => LET lf == LowerLeft(player.detection.points)
           rf == SecondCorner(player.detection.points)
           bc == BoxCenter(ball.detection.points)
       IN result.val = IF SqDist(bc, lf) < SqDist(bc, rf) THEN lf ELSE rf

\* a tie between two different feet, answered with the right foot
C1_Witness ==
    /\ result.op = "closest_foot_to_ball"
    /\ PlayerSeen
    /\ BallSeen
    /\ LET lf == LowerLeft(player.detection.points)
           rf == SecondCorner(player.detection.points)
           bc == BoxCenter(ball.detection.points)
       IN /\ SqDist(bc, lf) = SqDist(bc, rf)
          /\ lf # rf
          /\ result.val = rf

AccessorOps ==
    {"left_foot", "right_foot", "center", "feet", "xy",
     "left_foot_abs", "right_foot_abs", "center_abs",
     "soccer.left_foot", "soccer.right_foot", "soccer.feet"}

\* C2: on a Player whose detection is None, every geometry accessor returns
\* None: it neither raises nor produces coordinates.
C2_NullAccessorsReturnNone ==
    (result.op \in AccessorOps /\ ~PlayerSeen) => IsNone(result.val)

\* whether two operands are Players whose detections carry the same tracker id
SameTrackerId(a, b) ==
    /\ a.kind = "Player"
    /\ b.kind = "Player"
    /\ ~IsNone(a.detection)
    /\ ~IsNone(b.detection)
    /\ "id" \in DOMAIN a.detection.data
    /\ "id" \in DOMAIN b.detection.data
    /\ a.detection.data.id = b.detection.data.id

\* C3: Player.__eq__ and Player.have_same_id never raise: the answer is a
\* bool, false for a non-Player operand or a None detection on either side,
\* and otherwise true iff the two detections carry the same tracker id.
C3_EqualityTotal ==
    result.op \in {"__eq__", "have_same_id"}
    => result.val = Bool(SameTrackerId(player, other))

\* C4 (as stated): the left foot of a box ((x1,y1),(x2,y2)) is (x1, max(y1,y2))
\* and the right foot is (x2,y2), whichever of y1 and y2 is larger.
C4_LeftFootIsMax ==
    PlayerSeen
    => LET pts == player.detection.points
       IN /\ result.op \in {"left_foot", "soccer.left_foot"}
             => result.val = Point(pts[1][1], Max(pts[1][2], pts[2][2]))
          /\ result.op \in {"right_foot", "soccer.right_foot"}
             => result.val = Point(pts[2][1], pts[2][2])

\* C4 (amended): the left foot is (x1, y2), which is (x1, max(y1,y2)) exactly
\* when y2 >= y1; the right foot is the second corner (x2, y2).
C4_LeftFootIsX1Y2 ==
    PlayerSeen
    => LET pts == player.detection.points
       IN /\ result.op \in {"left_foot", "soccer.left_foot"}
             => /\ result.val = Point(pts[1][1], pts[2][2])
                /\ (result.val = Point(pts[1][1], Max(pts[1][2], pts[2][2])))
                   <=> (pts[2][2] >= pts[1][2])
          /\ result.op \in {"right_foot", "soccer.right_foot"}
             => result.val = Point(pts[2][1], pts[2][2])

\* a box whose first corner is the lower one, and its left foot
C4_Witness ==
    /\ result.op = "left_foot"
    /\ PlayerSeen
    /\ player.detection.points[1][2] > player.detection.points[2][2]
    /\ result.val.y = player.detection.points[2][2]

\* what both packages answer when a side has no geometry
DistanceNullPolicy ==
    (result.op \in {"distance_to_ball", "soccer.distance_to_ball"}
     /\ (~PlayerSeen \/ ~BallSeen))
    => IsNone(result.val)

\* C6 (as stated): distance_to_ball (both packages) is the distance between
\* the player's box centre and the ball's centre when both have geometry, and
\* None when the player's detection is None or the ball has no centre.
C6_DistanceIsCenterDistance ==
    /\ DistanceNullPolicy
    /\ (result.op \in {"distance_to_ball", "soccer.distance_to_ball"}
        /\ PlayerSeen /\ BallSeen)
       => result.val = Float(SqDist(BoxCenter(ball.detection.points),
                                    BoxCenter(player.detection.points)))

\* C6 (amended): game.Player.distance_to_ball is the centre-to-centre
\* distance; soccer.Player.distance_to_ball is the smaller of the distances
\* from the ball's centre to the left and to the right foot; both are None
\* when the player's detection is None or the ball has no centre.
C6_DistancePerPackage ==
    /\ DistanceNullPolicy
    /\ (result.op = "distance_to_ball" /\ PlayerSeen /\ BallSeen)
       => result.val = Float(SqDist(BoxCenter(ball.detection.points),
                                    BoxCenter(player.detection.points)))
    /\ (result.op = "soccer.distance_to_ball" /\ PlayerSeen /\ BallSeen)
       => LET bc == BoxCenter(ball.detection.points)
              dl == SqDist(bc, LowerLeft(player.detection.points))
              dr == SqDist(bc, SecondCorner(player.detection.points))
          IN result.val = Float(IF dl < dr THEN dl ELSE dr)

\* the legacy package answering with the right foot's distance, which is
\* neither the left foot's nor the centre's
C6_Witness ==
    /\ result.op = "soccer.distance_to_ball"
    /\ PlayerSeen
    /\ BallSeen
    /\ LET bc == BoxCenter(ball.detection.points)
           dl == SqDist(bc, LowerLeft(player.detection.points))
           dr == SqDist(bc, SecondCorner(player.detection.points))
       IN /\ dr < dl
          /\ result.val = Float(dr)
          /\ dr # SqDist(bc, BoxCenter(player.detection.points))

C8_ClosestCenterAbs ==
    result.op = "closest_center_to_ball_abs"
    => IF PlayerSeen /\ BallSeen
       THEN LET abs_d == SqDist(BoxCenter(ball.detection.absolute_points),
                                BoxCenter(player.detection.absolute_points))
                pix_d == SqDist(BoxCenter(ball.detection.points),
                                BoxCenter(player.detection.points))
            IN result.val = IF abs_d <= pix_d
                            THEN BoxCenter(player.detection.points)
                            ELSE None
       ELSE IsNone(result.val)

(* ------------------------- from_detections ---------------------------- *)
FactoryDone == result.op \in {"from_detections", "soccer.from_detections"}
NotNone(d) == ~IsNone(d)
NonNull(dets) == SelectSeq(dets, NotNone)

\* C9: from_detections (both packages) returns one Player per non-None
\* detection of the batch, in the batch's order: None entries are skipped,
\* the output is no longer than the input, and detections that share a
\* tracker id are all kept.
C9_OnePlayerPerDetection ==
    FactoryDone
    => /\ Len(players) = Len(NonNull(detections))
       /\ Len(players) <= Len(detections)
       /\ \A i \in 1..Len(players) :
            /\ players[i].kind = "Player"
            /\ players[i].detection = NonNull(detections)[i]

\* a batch with a None in the middle and the same tracker id on both sides
C9_Witness ==
    /\ result.op = "from_detections"
    /\ Len(detections) = 3
    /\ ~IsNone(detections[1])
    /\ IsNone(detections[2])
    /\ ~IsNone(detections[3])
    /\ detections[1].data.id = detections[3].data.id
    /\ Len(players) = 2
    /\ players[2].detection = detections[3]

\* the roster's team of that name, read off the roster
RosterTeam(roster, name) ==
    IF \E k \in 1..Len(roster) : roster[k].name = name
    THEN roster[CHOOSE k \in 1..Len(roster) : roster[k].name = name]
    ELSE None

\* C10: for a detection with a classification label, from_detections writes
\* the roster lookup (the Team of exactly that name, or None) into
\* detection.data["team"] before building the Player, and the Player's team
\* is that entry; a detection with neither a label nor a "team" entry gives a
\* Player whose team is None.
C10_TeamFromLabel ==
    FactoryDone
    => \A i \in 1..Len(players) :
         LET data == players[i].detection.data
         IN /\ "classification" \in DOMAIN data
               => /\ "team" \in DOMAIN data
                  /\ data.team = RosterTeam(teams, data.classification)
                  /\ players[i].team = data.team
            /\ ("classification" \notin DOMAIN data /\ "team" \notin DOMAIN data)
               => IsNone(players[i].team)

\* one labelled player on the roster, one labelled player off it, one
\* unlabelled player
C10_Witness ==
    /\ result.op = "from_detections"
    /\ Len(players) = 3
    /\ "classification" \in DOMAIN players[1].detection.data
    /\ players[1].detection.data.classification = "TeamRed"
    /\ players[1].team = TeamRed
    /\ "classification" \in DOMAIN players[2].detection.data
    /\ players[2].detection.data.classification = "Unknown"
    /\ IsNone(players[2].team)
    /\ IsNone(players[2].detection.data.team)
    /\ DOMAIN players[3].detection.data = {"id"}
    /\ IsNone(players[3].team)

(* ---------------------------- create_mask ----------------------------- *)
\* a frame that holds every row and column index the two overlays name
LargeEnough(frm) == frm.shape[1] >= 1800 /\ frm.shape[2] >= 2000
AllKeep(mask) ==
    \A z \in mask.zero : SliceEmpty(z.rows) \/ SliceEmpty(z.cols)

\* C5: create_mask always excludes the two fixed overlay rectangles: on a
\* frame large enough to hold them and with no detections, the mask is 0
\* inside them and 1 elsewhere, so it is not all-keep.
C5_OverlaysExcluded ==
    (result.op = "create_mask" /\ detections = <<>> /\ LargeEnough(frame))
    => /\ ~AllKeep(result.val)
       /\ MaskAt(result.val, GoalCounter.r0, GoalCounter.c0) = 0
          \/ MaskAt(result.val, GoalCounter.r1, GoalCounter.c1) = 0
       /\ MaskAt(result.val, BroadcasterLogo.r0, BroadcasterLogo.c0) = 0
          \/ MaskAt(result.val, BroadcasterLogo.r1, BroadcasterLogo.c1) = 0

(* ------------------ get_main_ref / get_main_ball ---------------------- *)
HasFirst(dets) == ~IsNone(dets) /\ Len(dets.items) > 0

\* C11: get_main_ref and get_main_ball always return an entity, never None:
\* it wraps the first detection of a non-empty list, and has a None detection
\* when the list is empty or None.
C11_MainEntityNeverNone ==
    /\ result.op = "get_main_ref"
       => /\ ~IsNone(result.val)
          /\ result.val.kind = "Referee"
          /\ result.val.detection =
                IF HasFirst(detections) THEN detections.items[1] ELSE None
    /\ result.op = "get_main_ball"
       => /\ ~IsNone(result.val)
          /\ result.val.kind = "Ball"
          /\ result.val.detection =
                IF HasFirst(detections) THEN detections.items[1] ELSE None

\* a list of two different detections gives a referee around the first; the
\* list stays as it was
C11_Witness ==
    /\ result.op = "get_main_ref"
    /\ HasFirst(detections)
    /\ Len(detections.items) >= 2
    /\ detections.items[1] # detections.items[2]
    /\ result.val.detection = detections.items[1]

(* --------------------- update_motion_estimator ------------------------ *)
\* C12: over any sequence of frames, each update_motion_estimator call calls
\* the motion estimator exactly once, with the frame of that call and a mask
\* built from that call's frame and detections, and returns the transform
\* that call produced; earlier calls are left as they were and nothing of
\* them is reused.
C12_FreshMaskEachFrame ==
    [][/\ Len(calls') = Len(calls) + 1
       /\ SubSeq(calls', 1, Len(calls)) = calls
       /\ calls'[Len(calls')].frame = frame'
       /\ calls'[Len(calls')].mask = create_mask(frame', detections')
       /\ result'.op = "update_motion_estimator"
       /\ result'.val = calls'[Len(calls')].returned]_vars

\* two frames in a row whose masks and transforms differ, the second call
\* answered with the second transform
C12_Witness ==
    /\ Len(calls) >= 2
    /\ calls[Len(calls)].mask # calls[Len(calls) - 1].mask
    /\ calls[Len(calls)].returned # calls[Len(calls) - 1].returned
    /\ calls[Len(calls)].mask = create_mask(frame, detections)
    /\ calls[Len(calls)].mask.zero # {}
    /\ result.val = calls[Len(calls)].returned

====
